---- MODULE Spec2Model ----
(***************************************************************************)
(* apps/mail/lib/utils.ts: convertJSONToHTML (rich-text document to HTML)  *)
(* and createAIJsonContent (plain text to body + signature document).      *)
(*                                                                         *)
(* A JavaScript string is a sequence of one-character strings.  A          *)
(* JavaScript value is a record [k, v]: k is the value's type tag and v    *)
(* its payload (an object's payload is the sequence of its own             *)
(* <<key, value>> properties in enumeration order).                        *)
(***************************************************************************)
EXTENDS Integers, Sequences, FiniteSets

VARIABLES pc, json, result, text, match, signOffIndex, allLines,
          mainContent, signatureLines, paragraphs, doc, html

vars == <<pc, json, result, text, match, signOffIndex, allLines,
          mainContent, signatureLines, paragraphs, doc, html>>

(***************************************************************************)
(* JavaScript values                                                       *)
(***************************************************************************)
Null == [k |-> "null", v |-> <<>>]
Undefined == [k |-> "undefined", v |-> <<>>]
StrV(s) == [k |-> "string", v |-> s]
NumV(n) == [k |-> "number", v |-> n]
BoolV(b) == [k |-> "boolean", v |-> b]
ArrV(items) == [k |-> "array", v |-> items]
ObjV(props) == [k |-> "object", v |-> props]

IsNullish(x) == x.k \in {"null", "undefined"}

\* ToBoolean: what `!x`, `x || y` and `if (x)` test.
Truthy(x) ==
  CASE x.k \in {"null", "undefined"} -> FALSE
    [] x.k = "string" -> x.v # <<>>
    [] x.k = "number" -> x.v # 0
    [] x.k = "boolean" -> x.v
    [] OTHER -> TRUE

\* x === 'literal'
IsStr(x, s) == x.k = "string" /\ x.v = s

\* json.<key>: the own property, or undefined
HasProp(o, key) == \E i \in 1..Len(o.v) : o.v[i][1] = key
Get(o, key) ==
  IF o.k = "object" /\ HasProp(o, key)
  THEN o.v[CHOOSE i \in 1..Len(o.v) : o.v[i][1] = key][2]
  ELSE Undefined

\* Object.values(json)
RECURSIVE ObjectValues(_)
ObjectValues(props) ==
  IF props = <<>> THEN <<>> ELSE <<Head(props)[2]>> \o ObjectValues(Tail(props))

Digit(d) == <<"0", "1", "2", "3", "4", "5", "6", "7", "8", "9">>[d + 1]

\* Number.prototype.toString for integers
RECURSIVE NatToString(_)
NatToString(n) ==
  IF n < 10 THEN <<Digit(n)>> ELSE NatToString(n \div 10) \o <<Digit(n % 10)>>
NumberToString(n) == IF n < 0 THEN <<"-">> \o NatToString(0 - n) ELSE NatToString(n)

\* ToString(x): what a template literal `${x}` and Array.prototype.join apply
RECURSIVE JSToString(_)
RECURSIVE JoinComma(_)
JoinComma(items) ==
  IF items = <<>> THEN <<>>
  ELSE (IF IsNullish(Head(items)) THEN <<>> ELSE JSToString(Head(items)))
       \o (IF Len(items) > 1 THEN <<",">> \o JoinComma(Tail(items)) ELSE <<>>)
JSToString(x) ==
  CASE x.k = "string" -> x.v
    [] x.k = "number" -> NumberToString(x.v)
    [] x.k = "boolean" -> IF x.v THEN <<"t", "r", "u", "e">> ELSE <<"f", "a", "l", "s", "e">>
    [] x.k = "null" -> <<"n", "u", "l", "l">>
    [] x.k = "undefined" -> <<"u", "n", "d", "e", "f", "i", "n", "e", "d">>
    [] x.k = "array" -> JoinComma(x.v)
    [] OTHER -> <<"[", "o", "b", "j", "e", "c", "t", " ", "O", "b", "j", "e", "c", "t", "]">>

\* String.prototype.startsWith
StartsWith(s, p) == Len(s) >= Len(p) /\ SubSeq(s, 1, Len(p)) = p

\* s.split('-')[1]: the piece between the first '-' and the next one (or the
\* end); undefined when s holds no '-'.
SplitDashSecond(s) ==
  LET dashes == {i \in 1..Len(s) : s[i] = "-"}
  IN IF dashes = {} THEN Undefined
     ELSE LET d1 == CHOOSE i \in dashes : \A j \in dashes : i <= j
              later == {i \in dashes : i > d1}
              d2 == IF later = {} THEN Len(s) + 1
                    ELSE CHOOSE i \in later : \A j \in later : i <= j
          IN StrV(SubSeq(s, d1 + 1, d2 - 1))

(***************************************************************************)
(* convertJSONToHTML.  A call either returns a value or throws.            *)
(***************************************************************************)
Ok(x) == [kind |-> "ok", val |-> x]
Throw == [kind |-> "throw", val |-> Undefined]

\* `if (!json) return ''`
FalsyGuard(j) == ~Truthy(j)

\* the text-node branch with the four wraps applied in the reverse order
TextNodeHTMLCodeFirst(j) ==
  LET t0 == IF Truthy(Get(j, "text")) THEN Get(j, "text") ELSE StrV(<<>>)
      t1 == IF Truthy(Get(j, "code"))
            THEN StrV(<<"<", "c", "o", "d", "e", ">">> \o JSToString(t0)
                      \o <<"<", "/", "c", "o", "d", "e", ">">>)
            ELSE t0
      t2 == IF Truthy(Get(j, "underline"))
            THEN StrV(<<"<", "u", ">">> \o JSToString(t1) \o <<"<", "/", "u", ">">>)
            ELSE t1
      t3 == IF Truthy(Get(j, "italic"))
            THEN StrV(<<"<", "e", "m", ">">> \o JSToString(t2) \o <<"<", "/", "e", "m", ">">>)
            ELSE t2
      t4 == IF Truthy(Get(j, "bold"))
            THEN StrV(<<"<", "s", "t", "r", "o", "n", "g", ">">> \o JSToString(t3)
                      \o <<"<", "/", "s", "t", "r", "o", "n", "g", ">">>)
            ELSE t3
  IN t4

\* the text-node branch: json.text || '' wrapped per truthy flag, in the
\* order of the four assignments
TextNodeHTML(j) ==
  LET t0 == IF Truthy(Get(j, "text")) THEN Get(j, "text") ELSE StrV(<<>>)
      t1 == IF Truthy(Get(j, "bold"))
            THEN StrV(<<"<", "s", "t", "r", "o", "n", "g", ">">> \o JSToString(t0)
                      \o <<"<", "/", "s", "t", "r", "o", "n", "g", ">">>)
            ELSE t0
      t2 == IF Truthy(Get(j, "italic"))
            THEN StrV(<<"<", "e", "m", ">">> \o JSToString(t1) \o <<"<", "/", "e", "m", ">">>)
            ELSE t1
      t3 == IF Truthy(Get(j, "underline"))
            THEN StrV(<<"<", "u", ">">> \o JSToString(t2) \o <<"<", "/", "u", ">">>)
            ELSE t2
      t4 == IF Truthy(Get(j, "code"))
            THEN StrV(<<"<", "c", "o", "d", "e", ">">> \o JSToString(t3)
                      \o <<"<", "/", "c", "o", "d", "e", ">">>)
            ELSE t3
  IN t4

\* the member a paragraph's children are read from
ParagraphChildren(j) == Get(j, "children")

\* a paragraph whose closing tag lost its slash
ParagraphHTMLUnclosed(inner) == <<"<", "p", ">">> \o inner \o <<"<", "p", ">">>

\* `<p>${inner}</p>`
ParagraphHTML(inner) == <<"<", "p", ">">> \o inner \o <<"<", "/", "p", ">">>

\* json.type?.startsWith('heading-'): undefined for a nullish type, a boolean
\* for a string, and a TypeError for any other type (no such method).
HeadingTest(type) ==
  CASE IsNullish(type) -> Ok(BoolV(FALSE))
    [] type.k = "string" -> Ok(BoolV(StartsWith(type.v, <<"h", "e", "a", "d", "i", "n", "g", "-">>)))
    [] OTHER -> Throw

RECURSIVE convertJSONToHTML(_)
RECURSIVE MapJoin(_)

\* items.map((item) => convertJSONToHTML(item)).join('')
MapJoin(items) ==
  IF items = <<>> THEN Ok(StrV(<<>>))
  ELSE LET h == convertJSONToHTML(Head(items))
           t == MapJoin(Tail(items))
       IN IF h.kind = "throw" THEN h
          ELSE IF t.kind = "throw" THEN t
          ELSE Ok(StrV((IF IsNullish(h.val) THEN <<>> ELSE JSToString(h.val)) \o t.val.v))

\* `open${convertJSONToHTML(inner)}close`
Wrapped(open, inner, close) ==
  LET r == convertJSONToHTML(inner)
  IN IF r.kind = "throw" THEN r ELSE Ok(StrV(open \o JSToString(r.val) \o close))

convertJSONToHTML(j) ==
  IF FalsyGuard(j) THEN Ok(StrV(<<>>))
  ELSE IF j.k = "string" THEN Ok(j)
  ELSE IF j.k \in {"number", "boolean"} THEN Ok(StrV(JSToString(j)))
  ELSE IF j.k = "array" THEN MapJoin(j.v)
  ELSE IF j.k = "object" THEN
    LET type == Get(j, "type")
        heading == HeadingTest(type)
    IN IF IsStr(type, <<"t", "e", "x", "t">>) THEN Ok(TextNodeHTML(j))
       ELSE IF IsStr(type, <<"p", "a", "r", "a", "g", "r", "a", "p", "h">>)
         THEN LET r == convertJSONToHTML(ParagraphChildren(j))
              IN IF r.kind = "throw" THEN r ELSE Ok(StrV(ParagraphHTML(JSToString(r.val))))
       ELSE IF heading.kind = "throw" THEN Throw
       ELSE IF heading.val.v
         THEN LET level == JSToString(SplitDashSecond(type.v))
              IN Wrapped(<<"<", "h">> \o level \o <<">">>, Get(j, "children"),
                         <<"<", "/", "h">> \o level \o <<">">>)
       ELSE IF IsStr(type, <<"b", "u", "l", "l", "e", "t", "e", "d", "-", "l", "i", "s", "t">>)
         THEN Wrapped(<<"<", "u", "l", ">">>, Get(j, "children"), <<"<", "/", "u", "l", ">">>)
       ELSE IF IsStr(type, <<"n", "u", "m", "b", "e", "r", "e", "d", "-", "l", "i", "s", "t">>)
         THEN Wrapped(<<"<", "o", "l", ">">>, Get(j, "children"), <<"<", "/", "o", "l", ">">>)
       ELSE IF IsStr(type, <<"l", "i", "s", "t", "-", "i", "t", "e", "m">>)
         THEN Wrapped(<<"<", "l", "i", ">">>, Get(j, "children"), <<"<", "/", "l", "i", ">">>)
       ELSE IF IsStr(type, <<"l", "i", "n", "k">>)
         THEN Wrapped(<<"<", "a", " ", "h", "r", "e", "f", "=", "\"">> \o JSToString(Get(j, "url"))
                        \o <<"\"", ">">>,
                      Get(j, "children"), <<"<", "/", "a", ">">>)
       ELSE IF IsStr(type, <<"i", "m", "a", "g", "e">>)
         THEN Ok(StrV(<<"<", "i", "m", "g", " ", "s", "r", "c", "=", "\"">>
                      \o JSToString(Get(j, "url"))
                      \o <<"\"", " ", "a", "l", "t", "=", "\"">>
                      \o (IF Truthy(Get(j, "alt")) THEN JSToString(Get(j, "alt")) ELSE <<>>)
                      \o <<"\"", " ", "/", ">">>))
       ELSE IF IsStr(type, <<"b", "l", "o", "c", "k", "-", "q", "u", "o", "t", "e">>)
         THEN Wrapped(<<"<", "b", "l", "o", "c", "k", "q", "u", "o", "t", "e", ">">>,
                      Get(j, "children"),
                      <<"<", "/", "b", "l", "o", "c", "k", "q", "u", "o", "t", "e", ">">>)
       ELSE IF IsStr(type, <<"c", "o", "d", "e", "-", "b", "l", "o", "c", "k">>)
         THEN Wrapped(<<"<", "p", "r", "e", ">", "<", "c", "o", "d", "e", ">">>,
                      Get(j, "children"),
                      <<"<", "/", "c", "o", "d", "e", ">", "<", "/", "p", "r", "e", ">">>)
       ELSE IF Truthy(Get(j, "children")) THEN convertJSONToHTML(Get(j, "children"))
       ELSE MapJoin(ObjectValues(j.v))
  ELSE Ok(StrV(<<>>))

(***************************************************************************)
(* String primitives createAIJsonContent uses                              *)
(***************************************************************************)
\* \s of a regular expression, and what trim() strips
WhiteSpace == {" ", "\t", "\n", "\r", "\f"}

UpperChars == <<"A", "B", "C", "D", "E", "F", "G", "H", "I", "J", "K", "L", "M",
                "N", "O", "P", "Q", "R", "S", "T", "U", "V", "W", "X", "Y", "Z">>
LowerChars == <<"a", "b", "c", "d", "e", "f", "g", "h", "i", "j", "k", "l", "m",
                "n", "o", "p", "q", "r", "s", "t", "u", "v", "w", "x", "y", "z">>
UpperSet == {UpperChars[i] : i \in 1..26}
LowerSet == {LowerChars[i] : i \in 1..26}

\* [A-Za-z]
IsLetter(c) == c \in UpperSet \/ c \in LowerSet
\* \w
IsWordChar(c) == IsLetter(c) \/ c \in {"0", "1", "2", "3", "4", "5", "6", "7", "8", "9", "_"}
\* [A-Za-z\s.]
IsNameChar(c) == IsLetter(c) \/ c \in WhiteSpace \/ c = "."

\* case folding of the /i flag
Lower(c) == IF c \in UpperSet THEN LowerChars[CHOOSE i \in 1..26 : UpperChars[i] = c] ELSE c

\* String.prototype.trim
RECURSIVE TrimStart(_, _)
TrimStart(s, i) ==
  IF i > Len(s) THEN i ELSE IF s[i] \in WhiteSpace THEN TrimStart(s, i + 1) ELSE i
RECURSIVE TrimEnd(_, _)
TrimEnd(s, i) ==
  IF i < 1 THEN i ELSE IF s[i] \in WhiteSpace THEN TrimEnd(s, i - 1) ELSE i
Trim(s) == SubSeq(s, TrimStart(s, 1), TrimEnd(s, Len(s)))

\* String.prototype.endsWith, for a one-character argument
EndsWith(s, c) == Len(s) > 0 /\ s[Len(s)] = c

\* the first index from i on that holds a newline (Len(s) + 1 if none), and
\* the first that holds another character
NextNewline(s, i) ==
  LET at == {j \in i..Len(s) : s[j] = "\n"}
  IN IF at = {} THEN Len(s) + 1 ELSE CHOOSE j \in at : \A n \in at : j <= n
NextNonNewline(s, i) ==
  LET at == {j \in i..Len(s) : s[j] # "\n"}
  IN IF at = {} THEN Len(s) + 1 ELSE CHOOSE j \in at : \A n \in at : j <= n

\* s.split(/\n+/): the pieces between the maximal runs of newlines
RECURSIVE SplitNewlinesFrom(_, _)
SplitNewlinesFrom(s, start) ==
  LET i == NextNewline(s, start)
  IN IF i > Len(s) THEN <<SubSeq(s, start, Len(s))>>
     ELSE <<SubSeq(s, start, i - 1)>> \o SplitNewlinesFrom(s, NextNonNewline(s, i))
SplitNewlines(s) == SplitNewlinesFrom(s, 1)

\* s.split(/\n\s*\n/): a separator runs from a newline to the last newline of
\* the white space that follows it (greedy \s*), when there is one
RECURSIVE SplitBlankFrom(_, _, _)
SplitBlankFrom(s, from, start) ==
  LET i == NextNewline(s, from)
  IN IF i > Len(s) THEN <<SubSeq(s, start, Len(s))>>
     ELSE LET after == {j \in (i + 1)..Len(s) : s[j] \notin WhiteSpace}
              r == IF after = {} THEN Len(s)
                   ELSE (CHOOSE j \in after : \A n \in after : j <= n) - 1
              nls == {j \in (i + 1)..r : s[j] = "\n"}
          IN IF nls = {} THEN SplitBlankFrom(s, i + 1, start)
             ELSE LET e == CHOOSE j \in nls : \A n \in nls : j >= n
                  IN <<SubSeq(s, start, i - 1)>> \o SplitBlankFrom(s, e + 1, e + 1)
SplitBlank(s) == SplitBlankFrom(s, 1, 1)

\* .map((x) => x.trim())
MapTrim(ss) == [i \in 1..Len(ss) |-> Trim(ss[i])]

NonEmpty(s) == s # <<>>
\* .filter(Boolean) on strings
FilterBoolean(ss) == SelectSeq(ss, NonEmpty)

\* lines.join('\n')
RECURSIVE JoinNewline(_)
JoinNewline(ss) ==
  IF ss = <<>> THEN <<>>
  ELSE IF Len(ss) = 1 THEN ss[1]
  ELSE ss[1] \o <<"\n">> \o JoinNewline(Tail(ss))

\* text.lastIndexOf(m): the largest 0-based index at which m occurs, or -1
RECURSIVE LastIndexOfFrom(_, _, _)
LastIndexOfFrom(s, m, j) ==
  IF j < 0 THEN -1
  ELSE IF SubSeq(s, j + 1, j + Len(m)) = m THEN j
  ELSE LastIndexOfFrom(s, m, j - 1)
LastIndexOf(s, m) == LastIndexOfFrom(s, m, Len(s) - Len(m))

(***************************************************************************)
(* signOffPatterns[0]                                                      *)
(***************************************************************************)
\* the alternation's phrases, case-folded
SignOffPhrases == {
  <<"b", "e", "s", "t", " ", "r", "e", "g", "a", "r", "d", "s">>,
  <<"r", "e", "g", "a", "r", "d", "s">>,
  <<"s", "i", "n", "c", "e", "r", "e", "l", "y">>,
  <<"t", "h", "a", "n", "k", "s">>,
  <<"t", "h", "a", "n", "k", " ", "y", "o", "u">>,
  <<"c", "h", "e", "e", "r", "s">>,
  <<"b", "e", "s", "t">>,
  <<"a", "l", "l", " ", "t", "h", "e", " ", "b", "e", "s", "t">>,
  <<"y", "o", "u", "r", "s", " ", "t", "r", "u", "l", "y">>,
  <<"y", "o", "u", "r", "s", " ", "s", "i", "n", "c", "e", "r", "e", "l", "y">>,
  <<"k", "i", "n", "d", " ", "r", "e", "g", "a", "r", "d", "s">>,
  <<"c", "o", "r", "d", "i", "a", "l", "l", "y">> }

\* \s*\n+\s*([A-Za-z][A-Za-z\s.]*)$ from offset p (characters consumed): the
\* white space up to the first letter holds a newline, and letters, white
\* space and periods run from that letter to the end of the text
NameToEnd(s, p) ==
  LET after == {j \in (p + 1)..Len(s) : s[j] \notin WhiteSpace}
  IN /\ after # {}
     /\ LET f == CHOOSE j \in after : \A k \in after : j <= k
        IN /\ IsLetter(s[f])
           /\ \E j \in (p + 1)..(f - 1) : s[j] = "\n"
           /\ \A j \in f..Len(s) : IsNameChar(s[j])

\* \b(phrase(?:,)?) at 0-based offset i
PhraseAt(s, i, ph) ==
  /\ i + Len(ph) <= Len(s)
  /\ \A n \in 1..Len(ph) : Lower(s[i + n]) = ph[n]

\* whether the pattern matches starting at 0-based offset i
MatchesAt(s, i) ==
  /\ i = 0 \/ ~IsWordChar(s[i])
  /\ \E ph \in SignOffPhrases :
       /\ PhraseAt(s, i, ph)
       /\ \/ NameToEnd(s, i + Len(ph))
          \/ /\ i + Len(ph) < Len(s)
             /\ s[i + Len(ph) + 1] = ","
             /\ NameToEnd(s, i + Len(ph) + 1)

\* the offsets the pattern matches at
MatchOffsets(s) == {i \in 0..(Len(s) - 1) : MatchesAt(s, i)}

\* the rightmost offset the pattern matches at, or -1
RegexMatchRightmost(s) ==
  LET ms == MatchOffsets(s)
  IN IF ms = {} THEN -1 ELSE CHOOSE i \in ms : \A j \in ms : i >= j

\* text.match(pattern): the leftmost offset the pattern matches at, or -1.
\* The pattern ends in $, so match[0] is the text from that offset on.
RegexMatch(s) ==
  LET ms == MatchOffsets(s)
  IN IF ms = {} THEN -1 ELSE CHOOSE i \in ms : \A j \in ms : i <= j

\* the guard with index 0 let through
SignOffHonouredFromZero(idx) == idx >= 0

\* `if (signOffIndex > 0)`
SignOffHonoured(idx) == idx > 0

SigMaxLen == 60
SigTailLines == 3

\* the filter of potentialSigLines
Qualifies(line) ==
  /\ Len(Trim(line)) < SigMaxLen
  /\ ~EndsWith(Trim(line), "?")
  /\ ~EndsWith(Trim(line), ".")

\* allLines.slice(-3).filter(...)
PotentialSigLines(lines) ==
  SelectSeq(SubSeq(lines, IF Len(lines) > SigTailLines THEN Len(lines) - SigTailLines + 1 ELSE 1,
                   Len(lines)),
            Qualifies)

(***************************************************************************)
(* createAIJsonContent                                                     *)
(***************************************************************************)
TypeParagraph == StrV(<<"p", "a", "r", "a", "g", "r", "a", "p", "h">>)
TypeText == StrV(<<"t", "e", "x", "t">>)
TypeDoc == StrV(<<"d", "o", "c">>)

\* { type: 'paragraph', content: [{ type: 'text', text: p }] }
ParagraphNode(p) ==
  ObjV(<< <<"type", TypeParagraph>>,
          <<"content", ArrV(<< ObjV(<< <<"type", TypeText>>, <<"text", StrV(p)>> >>) >>)>> >>)

\* { type: 'paragraph' }
SpacerNode == ObjV(<< <<"type", TypeParagraph>> >>)

\* paragraphs.forEach: each paragraph, and an empty one between two
RECURSIVE BodyNodes(_)
BodyNodes(ps) ==
  IF ps = <<>> THEN <<>>
  ELSE IF Len(ps) = 1 THEN <<ParagraphNode(ps[1])>>
  ELSE <<ParagraphNode(ps[1]), SpacerNode>> \o BodyNodes(Tail(ps))

\* signatureLines.forEach
SignatureNodes(ls) == [i \in 1..Len(ls) |-> ParagraphNode(ls[i])]

\* the spacer pushed whether or not there was body content
SignatureSpacerAlways(ps) == <<SpacerNode>>

\* `if (paragraphs.length > 0) content.push({ type: 'paragraph' })`
SignatureSpacer(ps) == IF ps # <<>> THEN <<SpacerNode>> ELSE <<>>

\* the backfill test without its signature conjunct
BackfillIgnoringSignature(ps, sig) == ps = <<>>

\* `paragraphs.length === 0 && signatureLines.length === 0`
Backfill(ps, sig) == ps = <<>> /\ sig = <<>>

\* text.lastIndexOf(match[0]) for the match at offset m (-1: no match)
SignOffIndexOf(t, m) ==
  IF m >= 0 THEN LastIndexOf(t, SubSeq(t, m + 1, Len(t))) ELSE -1

\* the for loop over signOffPatterns: mainContent and signatureLines after it
PatternPass(t, m, idx) ==
  IF m >= 0 /\ SignOffHonoured(idx)
  THEN [main |-> Trim(SubSeq(t, 1, idx)),
        sig |-> FilterBoolean(MapTrim(SplitNewlines(Trim(SubSeq(t, idx + 1, Len(t))))))]
  ELSE [main |-> t, sig |-> <<>>]

\* `if (signatureLines.length === 0) { ... }`: p is the pattern pass's outcome
FallbackPass(p, lines, pot) ==
  IF p.sig = <<>> /\ Len(lines) > 1 /\ pot # <<>>
  THEN [main |-> Trim(JoinNewline(SubSeq(lines, 1, Len(lines) - Len(pot)))), sig |-> pot]
  ELSE p

\* paragraphs, with the backfill
Backfilled(t, ps, sig) == IF Backfill(ps, sig) THEN <<t>> ELSE ps
ParagraphsOf(t, main, sig) == Backfilled(t, FilterBoolean(MapTrim(SplitBlank(main))), sig)

\* the content array
ContentOf(ps, sig) ==
  BodyNodes(ps)
  \o (IF sig # <<>> THEN SignatureSpacer(ps) \o SignatureNodes(sig) ELSE <<>>)

\* the function's locals at its return, and the document it returns
Returning(t, m, idx, lines, f, ps) ==
  [match |-> m, signOffIndex |-> idx, allLines |-> lines, mainContent |-> f.main,
   signatureLines |-> f.sig, paragraphs |-> ps,
   doc |-> ObjV(<< <<"type", TypeDoc>>, <<"content", ArrV(ContentOf(ps, f.sig))>> >>)]
Serialized(t, m, idx, lines, f) ==
  Returning(t, m, idx, lines, f, ParagraphsOf(t, f.main, f.sig))
Split(t, m, idx, lines) ==
  Serialized(t, m, idx, lines,
             FallbackPass(PatternPass(t, m, idx), lines, PotentialSigLines(lines)))
Matched(t, m) == Split(t, m, SignOffIndexOf(t, m), SplitNewlines(t))

createAIJsonContent(t) == Matched(t, RegexMatch(t))

(***************************************************************************)
(* Inputs                                                                  *)
(***************************************************************************)
MaxArr == 2
MaxDepth == 1
MaxLines == 4

SeqsUpTo(S, n) == UNION {[1..m -> S] : m \in 0..n}

Hi == <<"h", "i">>

Primitives ==
  {Null, Undefined, StrV(<<>>), StrV(Hi), NumV(0), NumV(7), NumV(42),
   BoolV(FALSE), BoolV(TRUE)}

Flag(name, on) == IF on THEN << <<name, BoolV(TRUE)>> >> ELSE <<>>

\* { type: 'text', text: 'hi', bold?, italic?, underline?, code? }
TextNode(b, i, u, c) ==
  ObjV(<< <<"type", TypeText>>, <<"text", StrV(Hi)>> >>
       \o Flag("bold", b) \o Flag("italic", i) \o Flag("underline", u) \o Flag("code", c))

TextNodes == {TextNode(b, i, u, c) : b \in BOOLEAN, i \in BOOLEAN, u \in BOOLEAN, c \in BOOLEAN}

\* the values a node's `type` takes: the renderer's types, an unknown one,
\* and values that are no string
NodeTypes ==
  { TypeParagraph, TypeDoc,
    StrV(<<"h", "e", "a", "d", "i", "n", "g", "-", "2">>),
    StrV(<<"b", "u", "l", "l", "e", "t", "e", "d", "-", "l", "i", "s", "t">>),
    StrV(<<"n", "u", "m", "b", "e", "r", "e", "d", "-", "l", "i", "s", "t">>),
    StrV(<<"l", "i", "s", "t", "-", "i", "t", "e", "m">>),
    StrV(<<"l", "i", "n", "k">>),
    StrV(<<"i", "m", "a", "g", "e">>),
    StrV(<<"b", "l", "o", "c", "k", "-", "q", "u", "o", "t", "e">>),
    StrV(<<"c", "o", "d", "e", "-", "b", "l", "o", "c", "k">>),
    Null, NumV(5), BoolV(TRUE), ObjV(<<>>) }

Leaves ==
  Primitives \cup TextNodes
  \cup {ObjV(<< <<"type", TypeText>> >>),
        ObjV(<< <<"type", StrV(<<"i", "m", "a", "g", "e">>)>>,
                <<"url", StrV(<<"x", ".", "p", "n", "g">>)>> >>),
        ObjV(<<>>)}

\* nodes of nesting depth at most d: a node of some type over one child
RECURSIVE NodesUpTo(_)
NodesUpTo(d) ==
  IF d = 0 THEN Leaves
  ELSE LET below == NodesUpTo(d - 1)
       IN below \cup {ObjV(<< <<"type", ty>>, <<"children", ArrV(<<c>>)>> >>) :
                        ty \in NodeTypes, c \in below}

JsonInputs ==
  NodesUpTo(MaxDepth)
  \cup {ArrV(a) : a \in SeqsUpTo(Primitives, MaxArr)}
  \cup {ObjV(<< <<"a", x>>, <<"b", y>> >>) : x \in Primitives, y \in Primitives}

LongLine == [i \in 1..SigMaxLen |-> "x"]

LineSet ==
  { <<>>,
    <<"H", "e", "l", "l", "o", " ", "t", "h", "e", "r", "e", ".">>,
    <<"B", "e", "s", "t", " ", "r", "e", "g", "a", "r", "d", "s", ",">>,
    <<"J", "a", "n", "e", " ", "D", "o", "e">>,
    <<"t", "h", "a", "n", "k", "s", " ">>,
    <<"<", "b", ">", "W", "h", "y", "?">>,
    LongLine }

\* the texts of at most MaxLines lines of LineSet
Texts == {JoinNewline(ls) : ls \in SeqsUpTo(LineSet, MaxLines)}

(***************************************************************************)
(* The calls                                                               *)
(***************************************************************************)
NoResult == [kind |-> "none", val |-> Undefined]

InitRender ==
  /\ pc = "render"
  /\ json \in JsonInputs
  /\ result = NoResult
  /\ text = <<>>
  /\ match = -1
  /\ signOffIndex = -1
  /\ allLines = <<>>
  /\ mainContent = <<>>
  /\ signatureLines = <<>>
  /\ paragraphs = <<>>
  /\ doc = Undefined
  /\ html = NoResult

InitSplit ==
  /\ pc = "split"
  /\ json = Undefined
  /\ result = NoResult
  /\ text \in Texts
  /\ match = -1
  /\ signOffIndex = -1
  /\ allLines = <<>>
  /\ mainContent = <<>>
  /\ signatureLines = <<>>
  /\ paragraphs = <<>>
  /\ doc = Undefined
  /\ html = NoResult

\* result = convertJSONToHTML(json)
Convert ==
  /\ pc = "render"
  /\ pc' = "returned"
  /\ result' = convertJSONToHTML(json)
  /\ UNCHANGED <<json, text, match, signOffIndex, allLines, mainContent,
                 signatureLines, paragraphs, doc, html>>

\* doc = createAIJsonContent(text)
Create ==
  /\ pc = "split"
  /\ pc' = "created"
  /\ LET r == createAIJsonContent(text)
     IN /\ match' = r.match
        /\ signOffIndex' = r.signOffIndex
        /\ allLines' = r.allLines
        /\ mainContent' = r.mainContent
        /\ signatureLines' = r.signatureLines
        /\ paragraphs' = r.paragraphs
        /\ doc' = r.doc
  /\ UNCHANGED <<json, result, text, html>>

\* html = convertJSONToHTML(doc)
RenderDoc ==
  /\ pc = "created"
  /\ pc' = "rendered"
  /\ html' = convertJSONToHTML(doc)
  /\ UNCHANGED <<json, result, text, match, signOffIndex, allLines, mainContent,
                 signatureLines, paragraphs, doc>>

NextRender == Convert
NextSplit == Create \/ RenderDoc

SpecRender == InitRender /\ [][NextRender]_vars
SpecSplit == InitSplit /\ [][NextSplit]_vars

(***************************************************************************)
(* Properties of convertJSONToHTML (SpecRender)                            *)
(***************************************************************************)
Returned == pc = "returned"

\* C1: convertJSONToHTML is total: for every input value the call returns a
\* string and never throws.
C1_TotalString == Returned => (result.kind = "ok" /\ result.val.k = "string")

\* <tag>inner</tag>
Element(tag, inner) == <<"<">> \o tag \o <<">">> \o inner \o <<"<", "/">> \o tag \o <<">">>
WrapIf(on, tag, inner) == IF on THEN Element(tag, inner) ELSE inner

IsHiTextNode(j) ==
  /\ j.k = "object"
  /\ IsStr(Get(j, "type"), <<"t", "e", "x", "t">>)
  /\ IsStr(Get(j, "text"), Hi)
IsSet(j, flag) == Get(j, flag).k = "boolean" /\ Get(j, flag).v

\* C2 as stated: a text node is wrapped once per truthy flag, bold outermost,
\* then italic, then underline, code innermost.
C2_BoldOutermost ==
  (Returned /\ IsHiTextNode(json)) =>
    result = Ok(StrV(
      WrapIf(IsSet(json, "bold"), <<"s", "t", "r", "o", "n", "g">>,
        WrapIf(IsSet(json, "italic"), <<"e", "m">>,
          WrapIf(IsSet(json, "underline"), <<"u">>,
            WrapIf(IsSet(json, "code"), <<"c", "o", "d", "e">>, Hi))))))

\* C2 amended: a text node is wrapped once per truthy flag, code outermost,
\* then underline, then italic, bold innermost, for every subset of the flags.
C2_CodeOutermost ==
  (Returned /\ IsHiTextNode(json)) =>
    result = Ok(StrV(
      WrapIf(IsSet(json, "code"), <<"c", "o", "d", "e">>,
        WrapIf(IsSet(json, "underline"), <<"u">>,
          WrapIf(IsSet(json, "italic"), <<"e", "m">>,
            WrapIf(IsSet(json, "bold"), <<"s", "t", "r", "o", "n", "g">>, Hi))))))

\* text "hi" with bold and code has rendered as <code><strong>hi</strong></code>
C2_Witness ==
  /\ Returned
  /\ IsHiTextNode(json)
  /\ IsSet(json, "bold") /\ IsSet(json, "code")
  /\ ~IsSet(json, "italic") /\ ~IsSet(json, "underline")
  /\ result = Ok(StrV(<<"<", "c", "o", "d", "e", ">", "<", "s", "t", "r", "o", "n", "g", ">",
                        "h", "i",
                        "<", "/", "s", "t", "r", "o", "n", "g", ">", "<", "/", "c", "o", "d", "e", ">">>))

IsNumOrBool(x) == x.k \in {"number", "boolean"}

\* the decimal or true/false spelling of the model's numbers and booleans
Spelling(x) ==
  IF x.k = "boolean" THEN (IF x.v THEN <<"t", "r", "u", "e">> ELSE <<"f", "a", "l", "s", "e">>)
  ELSE IF x.v = 0 THEN <<"0">>
  ELSE IF x.v = 7 THEN <<"7">>
  ELSE <<"4", "2">>

\* C3: every number and boolean, 0 and false included, renders as its string
\* representation, at the top level, as the element of an array and as the
\* property value of an unrecognised object.
C3_NumBoolSpelled ==
  Returned =>
    /\ IsNumOrBool(json) => result = Ok(StrV(Spelling(json)))
    /\ (json.k = "array" /\ Len(json.v) = 1 /\ IsNumOrBool(json.v[1]))
         => result = Ok(StrV(Spelling(json.v[1])))
    /\ (json.k = "object" /\ Len(json.v) = 2 /\ json.v[1][1] = "a"
        /\ IsNumOrBool(json.v[1][2]) /\ IsNumOrBool(json.v[2][2]))
         => result = Ok(StrV(Spelling(json.v[1][2]) \o Spelling(json.v[2][2])))

(***************************************************************************)
(* Properties of createAIJsonContent (SpecSplit)                           *)
(***************************************************************************)
Created == pc \in {"created", "rendered"}

\* What a document holds, node by node: a paragraph's text, or a spacer.
Para(x) == [spacer |-> FALSE, text |-> x]
Spacer == [spacer |-> TRUE, text |-> <<>>]
DocView(d) ==
  LET c == Get(d, "content").v
  IN [i \in 1..Len(c) |->
        IF HasProp(c[i], "content")
        THEN Para(Get(Get(c[i], "content").v[1], "text").v)
        ELSE Spacer]
AllParagraphs(d) ==
  LET c == Get(d, "content").v
  IN \A i \in 1..Len(c) : IsStr(Get(c[i], "type"), <<"p", "a", "r", "a", "g", "r", "a", "p", "h">>)

\* The lines of a string (between single newlines), by position.
NewlinesOf(s) == {i \in 1..Len(s) : s[i] = "\n"}
LineCount(s) == Cardinality(NewlinesOf(s)) + 1
NthNewline(s, n) ==
  CHOOSE p \in NewlinesOf(s) : Cardinality({q \in NewlinesOf(s) : q < p}) = n - 1
LineStart(s, n) == IF n = 1 THEN 1 ELSE NthNewline(s, n - 1) + 1
LineEnd(s, n) == IF n = LineCount(s) THEN Len(s) ELSE NthNewline(s, n) - 1
IsBlank(s, a, b) == \A i \in a..b : s[i] \in WhiteSpace
NonBlankLines(s) == {n \in 1..LineCount(s) : ~IsBlank(s, LineStart(s, n), LineEnd(s, n))}

\* s[a..b] without the white space at its two ends
Stripped(s, a, b) ==
  IF IsBlank(s, a, b) THEN <<>>
  ELSE SubSeq(s,
         CHOOSE i \in a..b : s[i] \notin WhiteSpace /\ IsBlank(s, a, i - 1),
         CHOOSE i \in a..b : s[i] \notin WhiteSpace /\ IsBlank(s, i + 1, b))

Ascending(S) ==
  [i \in 1..Cardinality(S) |-> CHOOSE x \in S : Cardinality({y \in S : y < x}) = i - 1]

\* the non-empty trimmed lines of s, in order
StrippedLines(s) ==
  LET ns == Ascending(NonBlankLines(s))
  IN [i \in 1..Len(ns) |-> Stripped(s, LineStart(s, ns[i]), LineEnd(s, ns[i]))]

\* the non-empty trimmed blank-line-separated paragraphs of s, in order: the
\* maximal runs of consecutive non-blank lines
BlankLineParagraphs(s) ==
  LET nb == NonBlankLines(s)
      firsts == Ascending({n \in nb : (n - 1) \notin nb})
      lasts == Ascending({n \in nb : (n + 1) \notin nb})
  IN [i \in 1..Len(firsts) |-> Stripped(s, LineStart(s, firsts[i]), LineEnd(s, lasts[i]))]

\* paragraphs with one spacer between consecutive ones
Interleaved(ps) ==
  [i \in 1..(IF ps = <<>> THEN 0 ELSE 2 * Len(ps) - 1) |->
     IF i % 2 = 1 THEN Para(ps[(i + 1) \div 2]) ELSE Spacer]
Paras(ls) == [i \in 1..Len(ls) |-> Para(ls[i])]

HelloBestJane ==
  <<"H", "e", "l", "l", "o", " ", "t", "h", "e", "r", "e", ".", "\n", "\n",
    "B", "e", "s", "t", " ", "r", "e", "g", "a", "r", "d", "s", ",", "\n",
    "J", "a", "n", "e", " ", "D", "o", "e">>

\* C4: when the sign-off pattern matches at an index greater than 0, the doc
\* holds one paragraph per non-empty trimmed blank-line-separated paragraph
\* of the text before the match with one spacer between consecutive ones,
\* then one spacer if there was a body paragraph, then one paragraph per
\* non-empty trimmed line of the matched span.
C4_PatternDoc ==
  (Created /\ match > 0) =>
    LET body == BlankLineParagraphs(SubSeq(text, 1, match))
        sig == StrippedLines(SubSeq(text, match + 1, Len(text)))
    IN /\ AllParagraphs(doc)
       /\ DocView(doc) = Interleaved(body)
                         \o (IF body # <<>> THEN <<Spacer>> ELSE <<>>)
                         \o Paras(sig)

\* "Hello there.\n\nBest regards,\nJane Doe" has given exactly four nodes
C4_Witness ==
  /\ Created
  /\ text = HelloBestJane
  /\ match = 14
  /\ DocView(doc) = << Para(<<"H", "e", "l", "l", "o", " ", "t", "h", "e", "r", "e", ".">>),
                       Spacer,
                       Para(<<"B", "e", "s", "t", " ", "r", "e", "g", "a", "r", "d", "s", ",">>),
                       Para(<<"J", "a", "n", "e", " ", "D", "o", "e">>) >>

JaneThanks ==
  <<"J", "a", "n", "e", " ", "D", "o", "e", "\n", "t", "h", "a", "n", "k", "s", " ">>

\* C5: the raw text is backfilled as the doc's single paragraph exactly when
\* the main body yields no paragraph and no signature line was detected:
\* then the doc is that one paragraph; with signature lines and an empty
\* body it is the signature paragraphs alone (no backfill, no spacer); and
\* otherwise its body paragraphs are those of the main body.
C5_BackfillExactly ==
  Created =>
    LET bodyEmpty == IsBlank(mainContent, 1, Len(mainContent))
    IN /\ (bodyEmpty /\ signatureLines = <<>>) => DocView(doc) = <<Para(text)>>
       /\ (bodyEmpty /\ signatureLines # <<>>) => DocView(doc) = Paras(signatureLines)
       /\ ~bodyEmpty =>
            DocView(doc) = Interleaved(BlankLineParagraphs(mainContent))
                           \o (IF signatureLines # <<>> THEN <<Spacer>> ELSE <<>>)
                           \o Paras(signatureLines)
       /\ text = JaneThanks =>
            DocView(doc) = << Para(<<"J", "a", "n", "e", " ", "D", "o", "e">>),
                              Para(<<"t", "h", "a", "n", "k", "s", " ">>) >>

\* the empty string has given one paragraph holding one text node with text ""
C5_Witness ==
  /\ Created
  /\ text = <<>>
  /\ signatureLines = <<>>
  /\ doc = ObjV(<< <<"type", StrV(<<"d", "o", "c">>)>>,
                   <<"content",
                     ArrV(<< ObjV(<< <<"type", StrV(<<"p", "a", "r", "a", "g", "r", "a", "p", "h">>)>>,
                                     <<"content",
                                       ArrV(<< ObjV(<< <<"type", StrV(<<"t", "e", "x", "t">>)>>,
                                                       <<"text", StrV(<<>>)>> >>) >>)>> >>) >>)>> >>)

\* The tags of a string of HTML nest properly: every opening tag is closed by
\* a matching closing tag, innermost first (a tag ending in "/" closes itself).
TagEnd(s, i) ==
  LET closers == {j \in i..Len(s) : s[j] = ">"}
  IN IF closers = {} THEN 0 ELSE CHOOSE j \in closers : \A n \in closers : j <= n
TagName(s, a, b) ==
  LET stops == {j \in a..b : s[j] = " "}
  IN IF stops = {} THEN SubSeq(s, a, b)
     ELSE SubSeq(s, a, (CHOOSE j \in stops : \A n \in stops : j <= n) - 1)
RECURSIVE TagsNest(_, _, _)
TagsNest(s, from, open) ==
  LET lts == {j \in from..Len(s) : s[j] = "<"}
  IN IF lts = {} THEN open = <<>>
     ELSE LET i == CHOOSE j \in lts : \A n \in lts : j <= n
              e == TagEnd(s, i)
          IN IF e = 0 THEN FALSE
             ELSE IF s[i + 1] = "/"
               THEN /\ open # <<>>
                    /\ open[Len(open)] = SubSeq(s, i + 2, e - 1)
                    /\ TagsNest(s, e + 1, SubSeq(open, 1, Len(open) - 1))
             ELSE IF s[e - 1] = "/" THEN TagsNest(s, e + 1, open)
             ELSE TagsNest(s, e + 1, Append(open, TagName(s, i + 1, e - 1)))
WellFormed(s) == TagsNest(s, 1, <<>>)

\* C6: for every input string t, convertJSONToHTML(createAIJsonContent(t))
\* does not throw and its result is a string of properly nested tags.
C6_RenderedWellFormed ==
  pc = "rendered" =>
    /\ html.kind = "ok"
    /\ html.val.k = "string"
    /\ WellFormed(html.val.v)

\* a text with markup in it, split into several paragraphs, has been rendered
C6_Witness ==
  /\ pc = "rendered"
  /\ \E i \in 1..Len(text) : text[i] = "<"
  /\ Len(DocView(doc)) >= 3
  /\ html.kind = "ok"
  /\ \E i \in 1..Len(html.val.v) : html.val.v[i] = "<"

RECURSIVE Flatten(_)
Flatten(ss) == IF ss = <<>> THEN <<>> ELSE Head(ss) \o Flatten(Tail(ss))

\* C7: the rendering of createAIJsonContent(t) is, in order, <p>x</p> for
\* each text x of an emitted paragraph (<p></p> for a spacer), and nothing
\* else.
C7_RenderedParagraphs ==
  pc = "rendered" =>
    html = Ok(StrV(Flatten([i \in 1..Len(DocView(doc)) |->
                              Element(<<"p">>, DocView(doc)[i].text)])))

\* C8: in the fallback heuristic the signature lines are the trailing run of
\* the text's lines and the main body is exactly the lines before it.
C8_TrailingRun ==
  (Created /\ match <= 0 /\ Len(allLines) > 1 /\ signatureLines # <<>>) =>
    LET n == Len(allLines)
        k == Len(signatureLines)
    IN /\ k <= n
       /\ signatureLines = SubSeq(allLines, n - k + 1, n)
       /\ mainContent = Stripped(JoinNewline(SubSeq(allLines, 1, n - k)), 1,
                                 Len(JoinNewline(SubSeq(allLines, 1, n - k))))

BestJane ==
  <<"B", "e", "s", "t", " ", "r", "e", "g", "a", "r", "d", "s", ",", "\n",
    "J", "a", "n", "e", " ", "D", "o", "e">>

\* a line of under 60 characters (trimmed) that ends in neither '.' nor '?'
ShortOpenLine(l) ==
  LET t == Stripped(l, 1, Len(l))
  IN Len(t) < 60 /\ (t = <<>> \/ t[Len(t)] \notin {".", "?"})

\* the last three (or fewer) of a sequence of lines
LastThree(ls) == [i \in 1..(IF Len(ls) > 3 THEN 3 ELSE Len(ls)) |->
                    ls[(IF Len(ls) > 3 THEN Len(ls) - 3 ELSE 0) + i]]

\* C9 as stated: if the sign-off pattern matches starting at index 0, the
\* doc has no signature paragraphs and the whole text is the main body.
C9_NoSignatureAtZero ==
  (Created /\ match = 0) =>
    /\ signatureLines = <<>>
    /\ DocView(doc) = Interleaved(BlankLineParagraphs(text))

\* C9 amended: if the sign-off pattern matches starting at index 0, the
\* pattern branch does not honour it and the fallback heuristic decides: the
\* signature lines are the lines among the text's last three that are under
\* 60 characters and end in neither '.' nor '?' (the sign-off line itself
\* when the text has at most three lines), and only when none of the last
\* three qualifies is the whole text the main body.
C9_FallbackAtZero ==
  (Created /\ match = 0) =>
    /\ signatureLines = SelectSeq(LastThree(allLines), ShortOpenLine)
    /\ Len(allLines) <= 3 => (signatureLines # <<>> /\ signatureLines[1] = allLines[1])
    /\ signatureLines = <<>> => DocView(doc) = Interleaved(BlankLineParagraphs(text))

\* "Best regards,\nJane Doe" has given two signature paragraphs and no body
C9_Witness ==
  /\ Created
  /\ text = BestJane
  /\ match = 0
  /\ DocView(doc) = << Para(<<"B", "e", "s", "t", " ", "r", "e", "g", "a", "r", "d", "s", ",">>),
                       Para(<<"J", "a", "n", "e", " ", "D", "o", "e">>) >>

\* the offsets of the sign-off phrases that only name-like lines follow to the
\* end of the text
SignOffStarts(s) == {i \in 0..(Len(s) - 1) : MatchesAt(s, i)}
Largest(S) == CHOOSE x \in S : \A y \in S : x >= y
Smallest(S) == CHOOSE x \in S : \A y \in S : x <= y

\* those of them that open a line
LineSignOffStarts(s) == {i \in SignOffStarts(s) : i = 0 \/ s[i] = "\n"}

\* C10 as stated: with several such sign-off phrases, the signature block
\* starts at the last one; the earlier ones stay in the main body.
C10_StartsAtLast ==
  (Created /\ match > 0 /\ Cardinality(LineSignOffStarts(text)) > 1) =>
    LET from == Largest(LineSignOffStarts(text))
    IN signatureLines = StrippedLines(SubSeq(text, from + 1, Len(text)))

\* C10 amended: the signature block starts at the first (leftmost) sign-off
\* phrase that only name-like lines follow to the end of the text, when that
\* is not index 0; later sign-off phrases belong to the signature block.
C10_StartsAtFirst ==
  (Created /\ SignOffStarts(text) # {} /\ Smallest(SignOffStarts(text)) > 0) =>
    LET from == Smallest(SignOffStarts(text))
    IN /\ signOffIndex = from
       /\ signatureLines = StrippedLines(SubSeq(text, from + 1, Len(text)))
       /\ mainContent = Stripped(text, 1, from)

HelloBestThanksJane ==
  <<"H", "e", "l", "l", "o", " ", "t", "h", "e", "r", "e", ".", "\n",
    "B", "e", "s", "t", " ", "r", "e", "g", "a", "r", "d", "s", ",", "\n",
    "t", "h", "a", "n", "k", "s", " ", "\n",
    "J", "a", "n", "e", " ", "D", "o", "e">>

\* "Hello there.\nBest regards,\nthanks \nJane Doe": the block has started at
\* "Best regards," and holds the later "thanks"
C10_Witness ==
  /\ Created
  /\ text = HelloBestThanksJane
  /\ 27 \in SignOffStarts(text)
  /\ signOffIndex = 13
  /\ signatureLines = << <<"B", "e", "s", "t", " ", "r", "e", "g", "a", "r", "d", "s", ",">>,
                         <<"t", "h", "a", "n", "k", "s">>,
                         <<"J", "a", "n", "e", " ", "D", "o", "e">> >>

====
